---- MODULE Spec2Model ----
(***************************************************************************)
(* process-wick: a watchdog that polls a guardian process (the "dog") and, *)
(* once the dog is gone, signals a set of target processes, first SIGTERM  *)
(* and, after the vengeance delay, SIGKILL.                                *)
(*                                                                         *)
(* Spec     the binary (src/main.rs): the watch task, its own send_signal, *)
(*          the host idle loop, and the operating system around them.      *)
(* SpecLib  the same watch task with its send_signal calls resolved to the *)
(*          library's send_signal (src/lib.rs), whose fallback builds the  *)
(*          target's process tree, one expansion at a time, against a      *)
(*          process table that changes underneath it.                      *)
(* SpecBoth the behaviours of both.                                        *)
(* SpecFair Spec under the scheduling of the runtime, for what the         *)
(*          watchdog eventually does.                                      *)
(* SpecTree build_process_tree and get_processes_in_dfs_order, the public  *)
(*          tree functions of the library, on raw tables and tree maps.    *)
(* SpecWide the same functions on tables that speak of one pid more.       *)
(* SpecCall one call of send_signal, of the binary or of the library, on   *)
(*          its own, pid 1 among the pids it is called with.               *)
(***************************************************************************)
EXTENDS Integers, Sequences, FiniteSets, TLC

\* ------------------------------------------------------------------ bounds
\* Process ids of the modelled table are 1..MaxPid; pid 1 is init.
MaxPid == 4
\* Exits and forks of other processes during one behaviour.
MaxEnv == 1

\* Records of a raw process table, and the pids 1..MaxRec they speak of, when
\* the tree functions are exercised on their own.
MaxRec == 3

\* i32::MAX, the largest pid value that `pid as i32` leaves unchanged.
I32Max == 2147483647

Pids == 1..MaxPid
\* The pids the behaviours are started with as --dog and as --targets, and
\* the pids that may be running when the watchdog starts; the pids above
\* them are free, for the processes forked later.
DogPids == {2}
TargetPids == {3, 4}
BootPids == {1} \cup DogPids \cup TargetPids

VARIABLES
    \* the operating system
    alive,      \* pids that exist in the process table
    ppid,       \* parent pid of each pid (0: none)
    pgid,       \* process-group id of each pid
    denied,     \* pids the watchdog has no permission to signal
    envn,       \* exits and forks that have happened so far
    \* command line
    dog_pid,    \* --dog
    targets,    \* --targets, collected into a HashSet
    \* the watch task
    linked,     \* the send_signal the loop calls: "main" (main.rs) or "lib"
    pc,         \* position of the watch task
    todo,       \* targets the current `for &pid in &targets` has not reached
    cur,        \* argument `pid` of the send_signal call in progress
    force,      \* argument `force` of the send_signal call in progress
    running,    \* Arc<AtomicBool> shared with the host loop
    hostpc,     \* position of the host idle loop
    \* locals of the library's send_signal and of build_process_tree
    process_tree,       \* HashMap<u32, ProcessNode>
    to_visit,           \* VecDeque<u32>
    processes_in_order, \* Vec<u32>
    idx,                \* position of `for &process_pid in &processes_in_order`
    \* input of the tree functions when they are exercised on their own
    snapshot,   \* the (pid, ppid) records get_all_processes() returns
    \* history
    calls,      \* send_signal calls made, in order
    log,        \* kill(2) calls that carried a signal, in order
    dog_dead,   \* some guardian liveness check has returned false
    delays,     \* vengeance-delay sleeps that have elapsed
    owed        \* live pids of the targets' trees when the phase began

os      == <<alive, ppid, pgid, denied, envn>>
args    == <<dog_pid, targets, linked>>
treev   == <<process_tree, to_visit, processes_in_order, idx>>
hist    == <<calls, log, dog_dead, delays, owed>>
vars    == <<alive, ppid, pgid, denied, envn, dog_pid, targets, linked, pc,
             todo, cur, force, running, hostpc, process_tree, to_visit,
             processes_in_order, idx, snapshot, calls, log, dog_dead, delays,
             owed>>

\* ------------------------------------------------------------ conversions
\* `pid as i32`: the two's-complement reading of a u32.
AsI32(pid) == IF pid <= I32Max THEN pid ELSE pid - I32Max - I32Max - 2

\* Signal::SIGKILL when force, Signal::SIGTERM otherwise.
SigOf(f) == IF f THEN "SIGKILL" ELSE "SIGTERM"

\* ------------------------------------------------------------------ kill(2)
\* The processes a kill(raw, _) addresses: raw > 0 one process, raw = -1
\* every process but init, raw < -1 the members of process group -raw.
Addressed(raw) ==
    IF raw > 0 THEN {raw} \cap alive
    ELSE IF raw = -1 THEN alive \ {1}
    ELSE {p \in alive : pgid[p] = -raw}

\* Result of nix::sys::signal::kill: Ok, or the errno of the failure.
KillRes(raw) ==
    IF Addressed(raw) = {} THEN "ESRCH"
    ELSE IF Addressed(raw) \ denied = {} THEN "EPERM"
    ELSE "OK"

\* The processes the signal is delivered to.
KillRcpt(raw) == Addressed(raw) \ denied

\* One entry of the log of signals sent.
Sent(raw, f) ==
    [raw |-> raw, sig |-> SigOf(f), res |-> KillRes(raw),
     rcpt |-> KillRcpt(raw), call |-> Len(calls), after |-> delays]

\* kill(Pid::from_raw(pid as i32), None).is_ok()
is_process_alive(pid) == KillRes(AsI32(pid)) = "OK"

\* --------------------------------------------------------- initial states
\* A process table as the kernel keeps it: init is pid 1, every other live
\* process has a live parent that was created before it, and is either the
\* leader of its own process group or a member of its parent's group.
InitOS ==
    /\ alive \in {S \in SUBSET BootPids : 1 \in S}
    /\ ppid \in {f \in [Pids -> 0..MaxPid] :
                    \A p \in Pids :
                        IF p \in alive \ {1}
                        THEN f[p] \in alive /\ f[p] < p
                        ELSE f[p] = 0}
    /\ pgid \in {g \in [Pids -> Pids] :
                    \A p \in Pids :
                        IF p \in alive \ {1}
                        THEN g[p] \in {p, g[ppid[p]]}
                        ELSE g[p] = p}
    /\ denied \in {{}} \cup {{p} : p \in DogPids \cup TargetPids}
    /\ envn = 0

\* Args::parse(): --dog (or the parent pid) and the required --targets.
InitArgs ==
    /\ dog_pid \in DogPids
    /\ targets \in (SUBSET TargetPids) \ {{}}

InitTree ==
    /\ process_tree = <<>>
    /\ to_visit = <<>>
    /\ processes_in_order = <<>>
    /\ idx = 0

InitHistory ==
    /\ calls = <<>>
    /\ log = <<>>
    /\ dog_dead = FALSE
    /\ delays = 0
    /\ owed = {}

\* main() up to the spawn of the watch task.
Boot ==
    /\ InitOS
    /\ InitArgs
    /\ InitTree
    /\ InitHistory
    /\ pc = "check"
    /\ todo = {}
    /\ cur = 0
    /\ force = FALSE
    /\ running = TRUE
    /\ hostpc = "idle"
    /\ snapshot = <<>>

\* The binary as built: the loop calls the send_signal of main.rs.
Init == Boot /\ linked = "main"

\* The loop over the library's send_signal.
InitLib == Boot /\ linked = "lib"

\* ------------------------------------------------- the operating system
\* Exits and forks are followed until the watch task has retired.
\* The live pids whose chain of parents reaches t, and t itself if alive.
RECURSIVE Ancestors(_, _)
Ancestors(p, n) ==
    IF n = 0 \/ p \notin Pids \/ ppid[p] = 0 THEN {}
    ELSE {ppid[p]} \cup Ancestors(ppid[p], n - 1)

TreeOf(t) == {p \in alive : p = t \/ t \in Ancestors(p, MaxPid)}

TreeAll == UNION {TreeOf(t) : t \in targets}

\* A process exits and is reaped; its children are re-parented to init.
Exit(p) ==
    /\ pc # "done"
    /\ envn < MaxEnv
    /\ envn' = envn + 1
    /\ p \in alive \ {1}
    /\ alive' = alive \ {p}
    /\ ppid' = [q \in Pids |-> IF q = p THEN 0
                               ELSE IF ppid[q] = p THEN 1 ELSE ppid[q]]
    /\ pgid' = [pgid EXCEPT ![p] = p]
    /\ UNCHANGED <<denied, args, snapshot, pc, todo, cur, force, running,
                   hostpc, treev, hist>>

\* A live process forks: the child gets a free pid and its parent's group.
Spawn(p, c) ==
    /\ pc # "done"
    /\ envn < MaxEnv
    /\ envn' = envn + 1
    /\ p \in alive \ {1}
    /\ c \in Pids \ alive
    /\ alive' = alive \cup {c}
    /\ ppid' = [ppid EXCEPT ![c] = p]
    /\ pgid' = [pgid EXCEPT ![c] = pgid[p]]
    /\ UNCHANGED <<denied, args, snapshot, pc, todo, cur, force, running,
                   hostpc, treev, hist>>

\* get_all_processes(): one (pid, ppid) record per entry of /proc, in the
\* order of the directory, which lists the pids in increasing order.
RECURSIVE TableFrom(_)
TableFrom(p) ==
    IF p > MaxPid THEN <<>>
    ELSE IF p \in alive THEN <<(<<p, ppid[p]>>)>> \o TableFrom(p + 1)
    ELSE TableFrom(p + 1)

get_all_processes == TableFrom(1)

\* ------------------------------------------ src/lib.rs: the process tree
\* ProcessNode::new(pid, parent_pid)
ProcessNode(pid, parent_pid) ==
    [pid |-> pid, parent_pid |-> parent_pid, children |-> <<>>, depth |-> 0]

\* Mutant: the root node is created as its own parent.
BuildStartSelfParent(root_pid) ==
    [tree |-> (root_pid :> ProcessNode(root_pid, root_pid)),
     queue |-> <<root_pid>>]

\* build_process_tree before its loop: the root node, and the root queued.
BuildStart(root_pid) ==
    [tree |-> (root_pid :> ProcessNode(root_pid, 0)), queue |-> <<root_pid>>]

\* Mutant: a child already in the tree is queued again.
ScanRecordRequeue(st, rec, current_pid, current_depth) ==
    IF rec[2] = current_pid /\ rec[1] # current_pid
    THEN LET known == rec[1] \in DOMAIN st.tree
             child == [ProcessNode(rec[1], rec[2])
                           EXCEPT !.depth = current_depth + 1]
             t1 == IF known THEN st.tree ELSE st.tree @@ (rec[1] :> child)
         IN  [tree  |-> [t1 EXCEPT ![current_pid].children = Append(@, rec[1])],
              queue |-> Append(st.queue, rec[1])]
    ELSE st

\* Mutant: the test `pid != current_pid` is missing.
ScanRecordNoSelfTest(st, rec, current_pid, current_depth) ==
    IF rec[2] = current_pid
    THEN LET known == rec[1] \in DOMAIN st.tree
             child == [ProcessNode(rec[1], rec[2])
                           EXCEPT !.depth = current_depth + 1]
             t1 == IF known THEN st.tree ELSE st.tree @@ (rec[1] :> child)
         IN  [tree  |-> [t1 EXCEPT ![current_pid].children = Append(@, rec[1])],
              queue |-> IF known THEN st.queue ELSE Append(st.queue, rec[1])]
    ELSE st

\* Mutant: the child is pushed onto the children list only if already known.
ScanRecordListKnown(st, rec, current_pid, current_depth) ==
    IF rec[2] = current_pid /\ rec[1] # current_pid
    THEN LET known == rec[1] \in DOMAIN st.tree
             child == [ProcessNode(rec[1], rec[2])
                           EXCEPT !.depth = current_depth + 1]
             t1 == IF known THEN st.tree ELSE st.tree @@ (rec[1] :> child)
         IN  [tree  |-> IF known
                        THEN [t1 EXCEPT ![current_pid].children =
                                            Append(@, rec[1])]
                        ELSE t1,
              queue |-> IF known THEN st.queue ELSE Append(st.queue, rec[1])]
    ELSE st

\* Mutant: the node is inserted without the test `!contains_key(&pid)`.
ScanRecordReinsert(st, rec, current_pid, current_depth) ==
    IF rec[2] = current_pid /\ rec[1] # current_pid
    THEN LET known == rec[1] \in DOMAIN st.tree
             child == [ProcessNode(rec[1], rec[2])
                           EXCEPT !.depth = current_depth + 1]
             t1 == (rec[1] :> child) @@ st.tree
         IN  [tree  |-> [t1 EXCEPT ![current_pid].children = Append(@, rec[1])],
              queue |-> IF known THEN st.queue ELSE Append(st.queue, rec[1])]
    ELSE st

\* Mutant: the queue is used as a stack (push_front for push_back).
ScanRecordPushFront(st, rec, current_pid, current_depth) ==
    IF rec[2] = current_pid /\ rec[1] # current_pid
    THEN LET known == rec[1] \in DOMAIN st.tree
             child == [ProcessNode(rec[1], rec[2])
                           EXCEPT !.depth = current_depth + 1]
             t1 == IF known THEN st.tree ELSE st.tree @@ (rec[1] :> child)
         IN  [tree  |-> [t1 EXCEPT ![current_pid].children = Append(@, rec[1])],
              queue |-> IF known THEN st.queue ELSE <<rec[1]>> \o st.queue]
    ELSE st

\* The body of `for (pid, parent_pid) in all_processes` for one record.
ScanRecord(st, rec, current_pid, current_depth) ==
    IF rec[2] = current_pid /\ rec[1] # current_pid
    THEN LET known == rec[1] \in DOMAIN st.tree
             child == [ProcessNode(rec[1], rec[2])
                           EXCEPT !.depth = current_depth + 1]
             t1 == IF known THEN st.tree ELSE st.tree @@ (rec[1] :> child)
         IN  [tree  |-> [t1 EXCEPT ![current_pid].children = Append(@, rec[1])],
              queue |-> IF known THEN st.queue ELSE Append(st.queue, rec[1])]
    ELSE st

RECURSIVE ScanTable(_, _, _, _, _)
ScanTable(st, table, i, current_pid, current_depth) ==
    IF i > Len(table) THEN st
    ELSE ScanTable(ScanRecord(st, table[i], current_pid, current_depth),
                   table, i + 1, current_pid, current_depth)

\* One iteration of `while let Some(current_pid) = to_visit.pop_front()`,
\* given the snapshot get_all_processes() returns in it.
Expand(tree, queue, table) ==
    ScanTable([tree |-> tree, queue |-> Tail(queue)], table, 1,
              Head(queue), tree[Head(queue)].depth)

\* get_processes_in_dfs_order: the inner fn dfs, on the pair (visited, result).
RECURSIVE dfs(_, _, _)
RECURSIVE dfs_children(_, _, _, _)
\* Mutant: the loop over the children returns after the first child.
dfs_childrenFirstOnly(children, i, tree, st) ==
    IF i > Len(children) THEN st ELSE dfs(children[i], tree, st)

\* Mutant: the visited set stops the descent but not the push.
dfsEmitVisited(pid, tree, st) ==
    IF pid \in st.visited
    THEN [visited |-> st.visited, result |-> Append(st.result, pid)]
    ELSE LET st1 == [visited |-> st.visited \cup {pid}, result |-> st.result]
         IN  IF pid \in DOMAIN tree
             THEN LET st2 == dfs_children(tree[pid].children, 1, tree, st1)
                  IN  [visited |-> st2.visited,
                       result |-> Append(st2.result, pid)]
             ELSE st1

\* Mutant: the pid is pushed before its children are visited.
dfsPreOrder(pid, tree, st) ==
    IF pid \in st.visited THEN st
    ELSE LET st1 == [visited |-> st.visited \cup {pid}, result |-> st.result]
         IN  IF pid \in DOMAIN tree
             THEN dfs_children(tree[pid].children, 1, tree,
                               [visited |-> st1.visited,
                                result |-> Append(st1.result, pid)])
             ELSE st1

\* Mutant: the push has moved out of `if let Some(node)`.
dfsPushAbsent(pid, tree, st) ==
    IF pid \in st.visited THEN st
    ELSE LET st1 == [visited |-> st.visited \cup {pid}, result |-> st.result]
             st2 == IF pid \in DOMAIN tree
                    THEN dfs_children(tree[pid].children, 1, tree, st1)
                    ELSE st1
         IN  [visited |-> st2.visited, result |-> Append(st2.result, pid)]

dfs(pid, tree, st) ==
    IF pid \in st.visited THEN st
    ELSE LET st1 == [visited |-> st.visited \cup {pid}, result |-> st.result]
         IN  IF pid \in DOMAIN tree
             THEN LET st2 == dfs_children(tree[pid].children, 1, tree, st1)
                  IN  [visited |-> st2.visited,
                       result |-> Append(st2.result, pid)]
             ELSE st1

dfs_children(children, i, tree, st) ==
    IF i > Len(children) THEN st
    ELSE dfs_children(children, i + 1, tree, dfs(children[i], tree, st))

\* Mutant: the traversal starts at the children of the root.
dfsBelowRoot(tree, root_pid) ==
    IF root_pid \in DOMAIN tree
    THEN dfs_children(tree[root_pid].children, 1, tree,
                      [visited |-> {}, result |-> <<>>]).result
    ELSE <<>>

\* Mutant: the result is built from the front.
dfsPushFront(tree, root_pid) ==
    LET out == dfs(root_pid, tree, [visited |-> {}, result |-> <<>>]).result
    IN  [i \in 1..Len(out) |-> out[Len(out) + 1 - i]]

get_processes_in_dfs_order(tree, root_pid) ==
    dfs(root_pid, tree, [visited |-> {}, result |-> <<>>]).result

\* ----------------------------------------------------- src/main.rs: main
\* A send_signal call begins: its record in the history.
Call(t, f) == [pid |-> t, force |-> f, grp |-> "none", snaps |-> 0,
               order |-> <<>>]

\* Where a send_signal call starts: in main.rs, or in the library.
EntryPc == IF linked = "lib" THEN "lib_grp" ELSE "grp"

\* Return from a send_signal call to the loop that made it.
ReturnPc == IF force THEN "forced" ELSE "graceful"

\* Mutant: the test without its negation.
DogGoneInverted == is_process_alive(dog_pid)

\* `!is_process_alive(dog_pid)`, the test at the top of the watch loop.
DogGone == ~is_process_alive(dog_pid)

\* `if !is_process_alive(dog_pid) { ... }` else fall through to the sleep.
CheckDog ==
    /\ pc = "check"
    /\ dog_dead' = (dog_dead \/ ~is_process_alive(dog_pid))
    /\ IF DogGone
       THEN /\ pc' = "graceful"
            /\ todo' = targets
            /\ owed' = TreeAll
       ELSE /\ pc' = "tick"
            /\ UNCHANGED <<todo, owed>>
    /\ UNCHANGED <<os, args, snapshot, cur, force, running, hostpc, treev,
                   calls, log, delays>>

\* tokio::time::sleep(args.tick) has elapsed; the loop starts over.
TickWake ==
    /\ pc = "tick"
    /\ pc' = "check"
    /\ UNCHANGED <<os, args, snapshot, todo, cur, force, running, hostpc,
                   treev, hist>>

\* One iteration of the first `for &pid in &targets`: send_signal(pid, false).
GracefulNext(t) ==
    /\ pc = "graceful"
    /\ t \in todo
    /\ todo' = todo \ {t}
    /\ cur' = t
    /\ force' = FALSE
    /\ calls' = Append(calls, Call(t, FALSE))
    /\ pc' = EntryPc
    /\ UNCHANGED <<os, args, snapshot, running, hostpc, treev, log, dog_dead,
                   delays, owed>>

\* Mutant: the second loop starts without the sleep in between.
GracefulEndNoSleep ==
    /\ pc = "graceful"
    /\ todo = {}
    /\ pc' = "forced"
    /\ todo' = targets
    /\ UNCHANGED <<os, args, snapshot, cur, force, running, hostpc, treev,
                   hist>>

\* The first loop is over; the task sleeps for the vengeance delay.
GracefulEnd ==
    /\ pc = "graceful"
    /\ todo = {}
    /\ pc' = "delay"
    /\ UNCHANGED <<os, args, snapshot, todo, cur, force, running, hostpc,
                   treev, hist>>

\* tokio::time::sleep(args.vengeance_delay) has elapsed.
DelayWake ==
    /\ pc = "delay"
    /\ pc' = "forced"
    /\ todo' = targets
    /\ delays' = delays + 1
    /\ owed' = TreeAll
    /\ UNCHANGED <<os, args, snapshot, cur, force, running, hostpc, treev,
                   calls, log, dog_dead>>

\* One iteration of the second loop:
\* `if is_process_alive(pid) { send_signal(pid, true) }`.
ForcedNext(t) ==
    /\ pc = "forced"
    /\ t \in todo
    /\ todo' = todo \ {t}
    /\ IF is_process_alive(t)
       THEN /\ cur' = t
            /\ force' = TRUE
            /\ calls' = Append(calls, Call(t, TRUE))
            /\ pc' = EntryPc
       ELSE UNCHANGED <<cur, force, calls, pc>>
    /\ UNCHANGED <<os, args, snapshot, running, hostpc, treev, log, dog_dead,
                   delays, owed>>

\* Mutant: the flag is stored but the `break` is missing.
RetireNoBreak ==
    /\ pc = "forced"
    /\ todo = {}
    /\ running' = FALSE
    /\ pc' = "tick"
    /\ UNCHANGED <<os, args, snapshot, todo, cur, force, hostpc, treev, hist>>

\* Mutant: the loop breaks without storing the flag.
RetireNoStore ==
    /\ pc = "forced"
    /\ todo = {}
    /\ pc' = "done"
    /\ UNCHANGED <<os, args, snapshot, todo, cur, force, running, hostpc,
                   treev, hist>>

\* `r.store(false, Ordering::SeqCst); break;`
Retire ==
    /\ pc = "forced"
    /\ todo = {}
    /\ running' = FALSE
    /\ pc' = "done"
    /\ UNCHANGED <<os, args, snapshot, todo, cur, force, hostpc, treev, hist>>

\* `while running.load(Ordering::SeqCst) { sleep(500 ms) }`: one iteration.
HostLoop ==
    /\ hostpc = "idle"
    /\ running
    /\ UNCHANGED vars

\* Mutant: main returns without looking at the flag.
HostExitUnguarded ==
    /\ hostpc = "idle"
    /\ hostpc' = "exited"
    /\ UNCHANGED <<os, args, snapshot, pc, todo, cur, force, running, treev,
                   hist>>

\* The load returns false: main returns and the process ends.
HostExit ==
    /\ hostpc = "idle"
    /\ ~running
    /\ hostpc' = "exited"
    /\ UNCHANGED <<os, args, snapshot, pc, todo, cur, force, running, treev,
                   hist>>

\* ---------------------------------------------- src/main.rs: send_signal
\* Mutant: the result of the group kill is unwrapped, so Err aborts the task.
MainGroupKillUnwrap ==
    /\ pc = "grp"
    /\ log' = Append(log, Sent(-AsI32(cur), force))
    /\ calls' = [calls EXCEPT ![Len(calls)].grp = KillRes(-AsI32(cur))]
    /\ pc' = IF KillRes(-AsI32(cur)) = "OK" THEN ReturnPc ELSE "panicked"
    /\ UNCHANGED <<os, args, snapshot, todo, cur, force, running, hostpc,
                   treev, dog_dead, delays, owed>>

\* `match kill(Pid::from_raw(pgid), sig)` with pgid = -(pid as i32):
\* Ok returns, Err goes on to the individual pid.
MainGroupKill ==
    /\ pc = "grp"
    /\ log' = Append(log, Sent(-AsI32(cur), force))
    /\ calls' = [calls EXCEPT ![Len(calls)].grp = KillRes(-AsI32(cur))]
    /\ pc' = IF KillRes(-AsI32(cur)) = "OK" THEN ReturnPc ELSE "ind"
    /\ UNCHANGED <<os, args, snapshot, todo, cur, force, running, hostpc,
                   treev, dog_dead, delays, owed>>

\* The Err arm: `match kill(Pid::from_raw(individual_pid), sig)`.
MainPidKill ==
    /\ pc = "ind"
    /\ log' = Append(log, Sent(AsI32(cur), force))
    /\ pc' = ReturnPc
    /\ UNCHANGED <<os, args, snapshot, todo, cur, force, running, hostpc,
                   treev, calls, dog_dead, delays, owed>>

\* ----------------------------------------------- src/lib.rs: send_signal
\* Mutant: the Ok arm has lost its `return` and falls through to the tree.
LibGroupKillNoReturn ==
    /\ pc = "lib_grp"
    /\ log' = Append(log, Sent(-AsI32(cur), force))
    /\ calls' = [calls EXCEPT ![Len(calls)].grp = KillRes(-AsI32(cur))]
    /\ pc' = "build"
    /\ process_tree' = BuildStart(cur).tree
    /\ to_visit' = BuildStart(cur).queue
    /\ UNCHANGED <<os, args, snapshot, todo, cur, force, running, hostpc,
                   processes_in_order, idx, dog_dead, delays, owed>>

\* `match kill(Pid::from_raw(pgid), sig)`: Ok returns at once; Err falls
\* through to build_process_tree(pid), which starts with the root alone.
LibGroupKill ==
    /\ pc = "lib_grp"
    /\ log' = Append(log, Sent(-AsI32(cur), force))
    /\ calls' = [calls EXCEPT ![Len(calls)].grp = KillRes(-AsI32(cur))]
    /\ IF KillRes(-AsI32(cur)) = "OK"
       THEN /\ pc' = ReturnPc
            /\ UNCHANGED <<process_tree, to_visit>>
       ELSE /\ pc' = "build"
            /\ process_tree' = BuildStart(cur).tree
            /\ to_visit' = BuildStart(cur).queue
    /\ UNCHANGED <<os, args, snapshot, todo, cur, force, running, hostpc,
                   processes_in_order, idx, dog_dead, delays, owed>>

\* Mutant: the first snapshot of the process is kept and used again.
BuildStepCached ==
    /\ pc = "build"
    /\ to_visit # <<>>
    /\ LET all_processes == IF snapshot = <<>> THEN get_all_processes
                            ELSE snapshot
       IN  /\ snapshot' = all_processes
           /\ process_tree' = Expand(process_tree, to_visit, all_processes).tree
           /\ to_visit' = Expand(process_tree, to_visit, all_processes).queue
    /\ calls' = [calls EXCEPT ![Len(calls)].snaps = @ + 1]
    /\ UNCHANGED <<os, args, pc, todo, cur, force, running, hostpc,
                   processes_in_order, idx, log, dog_dead, delays, owed>>

\* build_process_tree: one pid is popped and expanded on a fresh snapshot.
BuildStep ==
    /\ pc = "build"
    /\ to_visit # <<>>
    /\ process_tree' = Expand(process_tree, to_visit, get_all_processes).tree
    /\ to_visit' = Expand(process_tree, to_visit, get_all_processes).queue
    /\ calls' = [calls EXCEPT ![Len(calls)].snaps = @ + 1]
    /\ UNCHANGED <<os, args, snapshot, pc, todo, cur, force, running, hostpc,
                   processes_in_order, idx, log, dog_dead, delays, owed>>

\* Mutant: the kill order is walked from the root down.
BuildDoneRootFirst ==
    /\ pc = "build"
    /\ to_visit = <<>>
    /\ processes_in_order' =
          LET out == get_processes_in_dfs_order(process_tree, cur)
          IN  [i \in 1..Len(out) |-> out[Len(out) + 1 - i]]
    /\ idx' = 1
    /\ calls' = [calls EXCEPT ![Len(calls)].order =
                     get_processes_in_dfs_order(process_tree, cur)]
    /\ pc' = "walk"
    /\ UNCHANGED <<os, args, snapshot, todo, cur, force, running, hostpc,
                   process_tree, to_visit, log, dog_dead, delays, owed>>

\* The queue is empty: the tree is returned and put in kill order.
BuildDone ==
    /\ pc = "build"
    /\ to_visit = <<>>
    /\ processes_in_order' = get_processes_in_dfs_order(process_tree, cur)
    /\ idx' = 1
    /\ calls' = [calls EXCEPT ![Len(calls)].order =
                     get_processes_in_dfs_order(process_tree, cur)]
    /\ pc' = "walk"
    /\ UNCHANGED <<os, args, snapshot, todo, cur, force, running, hostpc,
                   process_tree, to_visit, log, dog_dead, delays, owed>>

\* Mutant: the walk signals every pid of the order without the probe.
WalkCheckNoProbe ==
    /\ pc = "walk"
    /\ idx <= Len(processes_in_order)
    /\ pc' = "walk_kill"
    /\ UNCHANGED <<os, args, snapshot, todo, cur, force, running, hostpc,
                   process_tree, to_visit, processes_in_order, idx, hist>>

\* `if is_process_alive(process_pid)` for the next pid of the kill order.
WalkCheck ==
    /\ pc = "walk"
    /\ idx <= Len(processes_in_order)
    /\ IF is_process_alive(processes_in_order[idx])
       THEN pc' = "walk_kill" /\ UNCHANGED idx
       ELSE idx' = idx + 1 /\ UNCHANGED pc
    /\ UNCHANGED <<os, args, snapshot, todo, cur, force, running, hostpc,
                   process_tree, to_visit, processes_in_order, hist>>

\* Mutant: the Err arm leaves the loop.
WalkKillStopOnErr ==
    /\ pc = "walk_kill"
    /\ log' = Append(log, Sent(AsI32(processes_in_order[idx]), force))
    /\ idx' = IF KillRes(AsI32(processes_in_order[idx])) = "OK"
              THEN idx + 1
              ELSE Len(processes_in_order) + 1
    /\ pc' = "walk"
    /\ UNCHANGED <<os, args, snapshot, todo, cur, force, running, hostpc,
                   process_tree, to_visit, processes_in_order, calls,
                   dog_dead, delays, owed>>

\* `match kill(Pid::from_raw(process_pid as i32), sig)`: both arms go on.
WalkKill ==
    /\ pc = "walk_kill"
    /\ log' = Append(log, Sent(AsI32(processes_in_order[idx]), force))
    /\ idx' = idx + 1
    /\ pc' = "walk"
    /\ UNCHANGED <<os, args, snapshot, todo, cur, force, running, hostpc,
                   process_tree, to_visit, processes_in_order, calls,
                   dog_dead, delays, owed>>

\* The kill order is exhausted: send_signal returns, its locals are dropped.
WalkDone ==
    /\ pc = "walk"
    /\ idx > Len(processes_in_order)
    /\ pc' = ReturnPc
    /\ process_tree' = <<>>
    /\ to_visit' = <<>>
    /\ processes_in_order' = <<>>
    /\ idx' = 0
    /\ UNCHANGED <<os, args, snapshot, todo, cur, force, running, hostpc,
                   hist>>

\* ------------------------------------- the tree functions on their own
\* build_process_tree and get_processes_in_dfs_order are public functions of
\* the library.  Here they run on what get_all_processes() may hand them: any
\* list of (pid, ppid) records in the order of the pids, with a pid listed
\* under two parents, a record listed twice or parents in a cycle, and the
\* list changing from one snapshot to the next; and the ordering runs on
\* any tree map a caller may put together, as the unit tests do.  The root
\* is pid 1, with or without a record, a parent or a node of its own: the
\* functions compare pids for equality only.
TreePids == 1..MaxRec

RootPids == {1}

Records == {<<p, q>> : p \in TreePids, q \in 0..MaxRec}

InPidOrder(t) == \A i \in 1..(Len(t) - 1) : t[i][1] <= t[i + 1][1]

Tables == {t \in UNION {[1..n -> Records] : n \in 0..MaxRec} : InPidOrder(t)}

\* The snapshots that differ from t in one record: a process re-parented,
\* a process gone, a process forked.
Edits(t) ==
    ({[t EXCEPT ![i] = <<t[i][1], q>>] : i \in DOMAIN t, q \in 0..MaxRec}
        \cup {SubSeq(t, 1, i - 1) \o SubSeq(t, i + 1, Len(t)) : i \in DOMAIN t}
        \cup {u \in {Append(t, r) : r \in Records} :
                 Len(u) <= MaxRec /\ InPidOrder(u)})
    \ {t}

\* A tree map put together by hand: a record (c, 0) inserts node c, a record
\* (c, p) inserts node p and pushes c onto p's children.
ChildrenIn(t, n) ==
    LET recs == SelectSeq(t, LAMBDA r : r[2] = n)
    IN  [i \in 1..Len(recs) |-> recs[i][1]]

RawMap(t) ==
    LET nodes == {t[i][IF t[i][2] = 0 THEN 1 ELSE 2] : i \in DOMAIN t}
    IN  [n \in nodes |-> [ProcessNode(n, 0) EXCEPT !.children = ChildrenIn(t, n)]]

\* Nothing of the watchdog runs.
Idle ==
    /\ alive = {}
    /\ ppid = [p \in Pids |-> 0]
    /\ pgid = [p \in Pids |-> p]
    /\ denied = {}
    /\ envn = 0
    /\ dog_pid = 0
    /\ targets = {}
    /\ todo = {}
    /\ force = FALSE
    /\ running = TRUE
    /\ hostpc = "idle"
    /\ processes_in_order = <<>>
    /\ idx = 0
    /\ InitHistory

\* build_process_tree(root_pid) has been called.
InitBuild ==
    /\ Idle
    /\ linked = "tree"
    /\ snapshot \in Tables
    /\ cur \in RootPids
    /\ process_tree = BuildStart(cur).tree
    /\ to_visit = BuildStart(cur).queue
    /\ pc = "t_build"

\* A caller holds a tree map of its own making and a root pid.
InitMap ==
    /\ Idle
    /\ linked = "map"
    /\ snapshot \in Tables
    /\ cur \in RootPids
    /\ process_tree = RawMap(snapshot)
    /\ to_visit = <<>>
    /\ pc = "t_tree"

\* Tables that speak of one pid more than they have records, listed as a
\* child only: with it a root with two children and a grandchild fits in a
\* table, the least in which the order of the queue shows.
WidePid == MaxRec + 1

WideRecords == Records \cup {<<WidePid, q>> : q \in 0..MaxRec}

WideTables ==
    {t \in UNION {[1..n -> WideRecords] : n \in 0..MaxRec} :
        InPidOrder(t) /\ \E i \in DOMAIN t : t[i][1] = WidePid}

\* build_process_tree(root_pid) has been called on such a table.
InitWide ==
    /\ Idle
    /\ linked = "tree"
    /\ snapshot \in WideTables
    /\ cur \in RootPids
    /\ process_tree = BuildStart(cur).tree
    /\ to_visit = BuildStart(cur).queue
    /\ pc = "t_build"

\* One iteration of the while loop of build_process_tree.
TreeBuildStep ==
    /\ pc = "t_build"
    /\ to_visit # <<>>
    /\ process_tree' = Expand(process_tree, to_visit, snapshot).tree
    /\ to_visit' = Expand(process_tree, to_visit, snapshot).queue
    /\ UNCHANGED <<os, args, snapshot, pc, todo, cur, force, running, hostpc,
                   processes_in_order, idx, hist>>

\* The process table changes between two snapshots.
TableChange ==
    /\ pc = "t_build"
    /\ envn < MaxEnv
    /\ envn' = envn + 1
    /\ snapshot' \in Edits(snapshot)
    /\ UNCHANGED <<alive, ppid, pgid, denied, args, pc, todo, cur, force,
                   running, hostpc, treev, hist>>

\* The queue is empty: build_process_tree returns the tree.
TreeBuildDone ==
    /\ pc = "t_build"
    /\ to_visit = <<>>
    /\ pc' = "t_tree"
    /\ UNCHANGED <<os, args, snapshot, todo, cur, force, running, hostpc,
                   treev, hist>>

\* get_processes_in_dfs_order(&process_tree, root_pid) is called and returns.
TreeOrder ==
    /\ pc = "t_tree"
    /\ processes_in_order' = get_processes_in_dfs_order(process_tree, cur)
    /\ pc' = "t_done"
    /\ UNCHANGED <<os, args, snapshot, todo, cur, force, running, hostpc,
                   process_tree, to_visit, idx, hist>>

NextTree ==
    \/ TreeBuildStep
    \/ TableChange
    \/ TreeBuildDone
    \/ TreeOrder

\* ------------------------------------------- send_signal called directly
\* send_signal(pid, force) takes any u32.  Here one call is made, of either
\* send_signal, with pid 1, whose negation is the -1 that kill(2) reads as
\* "every process", or with an ordinary pid.
CallPids == {1, 3}

InitCall ==
    /\ InitOS
    /\ InitTree
    /\ dog_pid \in DogPids
    /\ linked \in {"main", "lib"}
    /\ cur \in CallPids
    /\ force \in BOOLEAN
    /\ targets = {cur}
    /\ todo = {}
    /\ pc = EntryPc
    /\ running = TRUE
    /\ hostpc = "idle"
    /\ snapshot = <<>>
    /\ calls = <<Call(cur, force)>>
    /\ log = <<>>
    /\ dog_dead = TRUE
    /\ delays = IF force THEN 1 ELSE 0
    /\ owed = {}

NextCall ==
    \/ MainGroupKill
    \/ MainPidKill
    \/ LibGroupKill
    \/ BuildStep
    \/ BuildDone
    \/ WalkCheck
    \/ WalkKill
    \/ WalkDone

\* ---------------------------------------------------------- specifications
Loop ==
    \/ CheckDog
    \/ TickWake
    \/ \E t \in Pids : GracefulNext(t)
    \/ GracefulEnd
    \/ DelayWake
    \/ \E t \in Pids : ForcedNext(t)
    \/ Retire

Host ==
    \/ HostLoop
    \/ HostExit

Env ==
    \/ \E p \in Pids : Exit(p)
    \/ \E p, c \in Pids : Spawn(p, c)

Next ==
    \/ Loop
    \/ Host
    \/ Env
    \/ MainGroupKill
    \/ MainPidKill

NextLib ==
    \/ Loop
    \/ Host
    \/ Env
    \/ LibGroupKill
    \/ BuildStep
    \/ BuildDone
    \/ WalkCheck
    \/ WalkKill
    \/ WalkDone

\* A step of the watch task, in the loop or inside a send_signal call.
Task ==
    \/ Loop
    \/ MainGroupKill
    \/ MainPidKill
    \/ LibGroupKill
    \/ BuildStep
    \/ BuildDone
    \/ WalkCheck
    \/ WalkKill
    \/ WalkDone

Spec == Init /\ [][Next]_vars

SpecLib == InitLib /\ [][NextLib]_vars

\* Both of the above: the loop over either send_signal.
SpecBoth == (Init \/ InitLib) /\ [][Next \/ NextLib]_vars

\* The binary under the scheduling of the tokio runtime: a spawned task that
\* can run is run and its timers fire, and the main thread's loop wakes
\* every 500 ms to load the flag.
SpecFair == Spec /\ WF_vars(Task) /\ WF_vars(HostExit)

\* The tree functions of the library on their own.
SpecTree == (InitBuild \/ InitMap) /\ [][NextTree]_vars

\* The same functions on the tables with the extra pid.
SpecWide == InitWide /\ [][NextTree]_vars

\* One call of send_signal on its own.
SpecCall == InitCall /\ [][NextCall]_vars

\* ------------------------------------------------------------------ claims
\* The pids a signal has been delivered to so far.
Delivered(sig) == UNION {log[i].rcpt : i \in {j \in DOMAIN log : log[j].sig = sig}}

\* The send_signal calls made so far for target t with the given force.
CallsOf(t, f) == {i \in DOMAIN calls : calls[i].pid = t /\ calls[i].force = f}

\* The first loop has run to its end.
GracefulOver == pc = "delay" \/ delays > 0

C1_State ==
    /\ \A i \in DOMAIN calls : calls[i].pid \in targets
    /\ \A t \in targets :
        /\ Cardinality(CallsOf(t, FALSE)) <= 1
        /\ Cardinality(CallsOf(t, TRUE)) <= 1
        /\ GracefulOver => Cardinality(CallsOf(t, FALSE)) = 1

C1_Step == pc = "done" => (pc' = "done" /\ log' = log /\ calls' = calls)

\* C1: in one run of the watch loop escalation happens once and is never
\* retried: every target gets exactly one graceful send_signal call and at
\* most one forced call, then the loop has stopped and sends nothing more.
C1_EscalatesOnce == [](C1_State) /\ [][C1_Step]_vars

\* Two targets, the loop over; one got its forced call, the other was skipped.
C1_Witness ==
    /\ pc = "done"
    /\ Cardinality(targets) = 2
    /\ \E t \in targets : CallsOf(t, TRUE) # {}
    /\ \E t \in targets : CallsOf(t, TRUE) = {}

\* C2: no signal is sent, and no send_signal call made, before a liveness
\* check of the guardian has returned false; until then the loop is either
\* about to check or asleep for the poll interval.
C2_NoSignalBeforeDeath ==
    ~dog_dead => (log = <<>> /\ calls = <<>> /\ pc \in {"check", "tick"})

\* The guardian was found alive, the loop sleeps, the targets are running.
C2_Witness ==
    /\ ~dog_dead
    /\ pc = "tick"
    /\ targets \subseteq alive
    /\ envn > 0

C4_State ==
    /\ delays <= 1
    /\ \A i \in DOMAIN log :
        /\ log[i].sig = "SIGTERM" => log[i].after = 0
        /\ log[i].sig = "SIGKILL" =>
            /\ log[i].after = 1
            /\ calls[log[i].call].force
            /\ \A t \in targets : \E j \in CallsOf(t, FALSE) : j < log[i].call

C4_Step == pc = "delay" => log' = log

\* C4: every forced signal is sent after the graceful call of every target
\* has returned and after the one vengeance-delay sleep has elapsed; every
\* graceful signal is sent before that sleep, and none during it.
C4_GracefulThenForced == [](C4_State) /\ [][C4_Step]_vars

\* Both a graceful and a forced signal have been delivered.
C4_Witness ==
    /\ \E i \in DOMAIN log : log[i].sig = "SIGTERM" /\ log[i].res = "OK"
    /\ \E i \in DOMAIN log : log[i].sig = "SIGKILL" /\ log[i].res = "OK"

\* The pids of target t's tree that were alive when the phase began, still
\* are, and that the watchdog is permitted to signal.
StillOwed(t) == {p \in owed : p \in TreeOf(t) /\ p \notin denied}

\* The targets whose group signal of the given force failed.
GroupFailed(f) ==
    {t \in targets : \E k \in CallsOf(t, f) : calls[k].grp \in {"ESRCH", "EPERM"}}

\* C3: when the graceful phase is over, SIGTERM has been delivered to every
\* live pid of the process tree of every target, here of every target whose
\* group signal failed.
C3_GracefulReachesTree ==
    pc = "delay" =>
        \A t \in GroupFailed(FALSE) : StillOwed(t) \subseteq Delivered("SIGTERM")

\* C5: when the forced phase is over, SIGKILL has been delivered to every
\* pid of the process tree of every target that was alive when the grace
\* period elapsed, here of every target whose forced group signal failed.
C5_ForcedReachesLive ==
    pc = "done" =>
        \A t \in GroupFailed(TRUE) : StillOwed(t) \subseteq Delivered("SIGKILL")

\* C6: the forced phase makes the forced group-signal attempt for every
\* target, here for every target whose process group still has a member,
\* with no pid protected by permissions.
C6_ForcedGroupForEveryTarget ==
    (pc = "done" /\ denied = {}) =>
        \A t \in {u \in targets : \E p \in alive : pgid[p] = u} :
            \E i \in DOMAIN log :
                log[i].sig = "SIGKILL" /\ log[i].raw = -AsI32(t)

Range(seq) == {seq[i] : i \in DOMAIN seq}

\* The pids some call of the given force has put in its kill order.
Slated(f) == UNION {Range(calls[i].order) :
                        i \in {j \in DOMAIN calls : calls[j].force = f}}

\* The pids that have been sent the individual signal of the given force.
Signalled(f) == {log[i].raw : i \in {j \in DOMAIN log :
                    log[j].sig = SigOf(f) /\ log[j].raw > 0 /\ log[j].res = "OK"}}

\* C7: every pid that was slated for, and sent, the individual signal of the
\* graceful phase, and that is still running, is slated in the forced phase
\* too (checked with no pid protected by permissions).
C7_KillListKept ==
    (pc = "done" /\ denied = {}) =>
        \A p \in Slated(FALSE) \cap Signalled(FALSE) :
            p \in alive => p \in Slated(TRUE)

\* C8: within one phase a pid is entered in the kill order of at most one
\* send_signal call and is sent the individual signal at most once.
C8_OncePerPhase ==
    \A f \in BOOLEAN : \A p \in Pids :
        /\ Cardinality({i \in DOMAIN calls :
              calls[i].force = f /\ p \in Range(calls[i].order)}) <= 1
        /\ Cardinality({i \in DOMAIN log :
              log[i].sig = SigOf(f) /\ log[i].raw = p}) <= 1

\* C9: a library send_signal call whose group signal succeeds takes no
\* snapshot, builds no tree, computes no kill order and sends no other signal.
C9_GroupSuccessEnds ==
    \A k \in DOMAIN calls :
        calls[k].grp = "OK" =>
            /\ calls[k].snaps = 0
            /\ calls[k].order = <<>>
            /\ \A i \in DOMAIN log :
                  log[i].call = k => log[i].raw = -AsI32(calls[k].pid)
            /\ k = Len(calls) =>
                  /\ process_tree = <<>>
                  /\ pc \notin {"build", "walk", "walk_kill"}

\* The group signal of a target with a child succeeded, and the phase ended.
C9_Witness ==
    /\ pc = "delay"
    /\ \E k \in DOMAIN calls :
          /\ calls[k].grp = "OK"
          /\ Cardinality(TreeOf(calls[k].pid)) > 1

\* The send_signal call k has returned.
Returned(k) == k < Len(calls) \/ pc \in {"graceful", "forced", "delay", "done"}

\* C10: a failed group signal stops nothing: the call goes on to the
\* individual handling (main.rs: the pid itself; lib.rs: the tree walk) and
\* returns, the task can always take its next step, and every target gets
\* its graceful call.
C10_GroupFailureNotFatal ==
    /\ \A k \in DOMAIN calls :
          (calls[k].grp \in {"ESRCH", "EPERM"} /\ Returned(k)) =>
              IF linked = "lib"
              THEN calls[k].snaps >= 1 /\ calls[k].pid \in Range(calls[k].order)
              ELSE \E i \in DOMAIN log :
                      log[i].call = k /\ log[i].raw = AsI32(calls[k].pid)
    /\ pc # "done" => ENABLED Task
    /\ GracefulOver => \A t \in targets : CallsOf(t, FALSE) # {}

\* The group signal of one target failed and the next target got its call.
C10_Witness ==
    \E k \in DOMAIN calls :
        /\ k < Len(calls)
        /\ calls[k].grp \in {"ESRCH", "EPERM"}
        /\ calls[k + 1].force = calls[k].force
        /\ calls[k + 1].grp # "none"

\* The pid the walk of the kill order is at.
process_pid == processes_in_order[idx]

C11_Step ==
    /\ (Len(log') > Len(log) /\ log'[Len(log')].raw > 0) =>
            /\ pc = "walk_kill"
            /\ log'[Len(log')].raw = AsI32(process_pid)
    /\ (pc' = "walk_kill" /\ pc # "walk_kill") =>
            /\ pc = "walk"
            /\ idx' = idx
            /\ is_process_alive(process_pid)
    /\ (pc = "walk_kill" /\ pc' # "walk_kill") =>
            /\ pc' = "walk"
            /\ idx' = idx + 1
            /\ Len(log') = Len(log) + 1
    /\ (pc = "walk" /\ idx' # idx /\ idx <= Len(processes_in_order)) =>
            /\ ~is_process_alive(process_pid)
            /\ idx' = idx + 1
            /\ pc' = "walk"
            /\ log' = log

\* C11: in the tree walk of the library's send_signal an individual signal
\* goes to the pid the walk is at and only from the position reached by a
\* probe of that pid that returned true, one send per probe; a pid whose
\* probe returns false is passed over, nothing is sent, and the walk moves on.
C11_ProbeBeforeEachSignal == [][C11_Step]_vars

\* A walk has ended in which one pid was signalled and another passed over.
C11_Witness ==
    /\ pc = "walk"
    /\ idx > Len(processes_in_order)
    /\ \E i \in DOMAIN processes_in_order :
          \E j \in DOMAIN log :
              log[j].call = Len(calls) /\ log[j].raw = processes_in_order[i]
    /\ \E i \in DOMAIN processes_in_order :
          \A j \in DOMAIN log :
              log[j].call = Len(calls) => log[j].raw # processes_in_order[i]

\* C12: escalation starts only from a guardian check that found no such
\* process; a probe that is refused (EPERM) counts as alive and the loop
\* goes to its sleep.
C12_InconclusiveIsAlive ==
    [][(pc = "check" /\ pc' # "check") =>
          IF dog_pid \in alive THEN pc' = "tick" ELSE pc' = "graceful"]_vars

C14_State ==
    /\ running <=> pc # "done"
    /\ ~dog_dead => (running /\ hostpc = "idle")
    /\ ~running => (delays = 1 /\ todo = {}
                      /\ \A t \in targets : CallsOf(t, FALSE) # {})
    /\ hostpc = "exited" => ~running

C14_Step ==
    /\ running' # running =>
          /\ running /\ ~running'
          /\ pc = "forced" /\ todo = {} /\ pc' = "done"
          /\ hostpc' = hostpc
    /\ hostpc' # hostpc => (running' = running /\ pc' = pc)

\* C14: the running flag is true until the watch task has finished the
\* forced loop, it goes from true to false once, in a step of the watch
\* task, and never back; the host loop does not write it, and main returns
\* only after reading it false, so never before the guardian was found dead.
C14_HostWaitsForTask == [](C14_State) /\ [][C14_Step]_vars

\* main has returned after an escalation that made a forced call.
C14_Witness ==
    /\ hostpc = "exited"
    /\ \E i \in DOMAIN calls : calls[i].force

\* C13: once a guardian check has returned false, the watch task gets through
\* both loops whatever the signals return, stores the flag, and main returns.
C13_ReachesDone ==
    dog_dead ~> (pc = "done" /\ ~running /\ hostpc = "exited")

\* main has returned after an escalation in which a signal failed.
C13_Witness ==
    /\ hostpc = "exited"
    /\ pc = "done"
    /\ \E i \in DOMAIN log : log[i].res # "OK"

\* ------------------------------------------- claims on the tree functions
\* The pids a build can meet, and how many of them it has not yet queued
\* plus how many it has queued and not yet expanded.
Universe == TreePids \cup RootPids

Measure == Cardinality(Universe \ DOMAIN process_tree) + Len(to_visit)

\* Node a lists b as a child and b lists a.
TwoCycle(tree) ==
    \E a, b \in DOMAIN tree :
        /\ a # b
        /\ b \in Range(tree[a].children)
        /\ a \in Range(tree[b].children)

C15_State ==
    linked = "tree" =>
        /\ DOMAIN process_tree \subseteq Universe
        /\ Range(to_visit) \subseteq DOMAIN process_tree
        /\ \A n \in DOMAIN process_tree :
              Len(process_tree[n].children) <= MaxRec
        /\ pc = "t_build" => ENABLED (TreeBuildStep \/ TreeBuildDone)

C15_Step ==
    (pc = "t_build" /\ <<process_tree, to_visit>>' # <<process_tree, to_visit>>)
        => Measure' < Measure

\* C15: build_process_tree terminates with a finite tree: every iteration
\* of its loop lowers a count that cannot go below zero (the pids not yet in
\* the tree plus the pids queued), the loop can always take its next
\* iteration or return, and the tree holds pids of the table only, whatever
\* the table, cyclic or changing.
C15_BuildTerminates == [](C15_State) /\ [][C15_Step]_vars

\* A build has returned whose table changed under it and whose tree has two
\* nodes that list each other as children.
C15_Witness ==
    /\ linked = "tree"
    /\ pc = "t_tree"
    /\ envn > 0
    /\ TwoCycle(process_tree)

\* The parents the records of table t give pid p, and the pids reached from
\* the pids S by following parents up to n times.
ParentsOf(t, p) == {t[i][2] : i \in {j \in DOMAIN t : t[j][1] = p}} \ {0}

RECURSIVE Up(_, _, _)
Up(t, S, n) ==
    IF n = 0 THEN {}
    ELSE LET P == UNION {ParentsOf(t, p) : p \in S}
         IN  P \cup Up(t, P, n - 1)

AcyclicTable(t) == \A p \in TreePids : p \notin Up(t, {p}, MaxRec)

\* C16: for every tree build_process_tree returns, those built from an
\* acyclic table among them, get_processes_in_dfs_order(tree, root) emits
\* every pid of the tree, each once, and the root last.
C16_EveryPidOnceRootLast ==
    (linked = "tree" /\ pc = "t_done") =>
        /\ Range(processes_in_order) = DOMAIN process_tree
        /\ Len(processes_in_order) = Cardinality(DOMAIN process_tree)
        /\ processes_in_order[Len(processes_in_order)] = cur

\* The order of a tree of more than two pids built from one acyclic table.
C16_Witness ==
    /\ linked = "tree"
    /\ pc = "t_done"
    /\ envn = 0
    /\ AcyclicTable(snapshot)
    /\ Len(processes_in_order) > 2

\* The pids reached from the pids S by following children lists up to n
\* times: the members of their subtrees.
RECURSIVE Down(_, _, _)
Down(tree, S, n) ==
    IF n = 0 THEN {}
    ELSE LET K == UNION {Range(tree[p].children) : p \in S \cap DOMAIN tree}
         IN  K \cup Down(tree, K, n - 1)

Subtree(tree, p) == Down(tree, {p}, Cardinality(Universe))

AcyclicMap(tree) == \A p \in DOMAIN tree : p \notin Subtree(tree, p)

\* Where pid p stands in the order.
Pos(order, p) == CHOOSE i \in DOMAIN order : order[i] = p

\* C17: in the order of an acyclic tree every node of the subtree of an
\* emitted pid is emitted too, and before that pid.
C17_SubtreeBeforeNode ==
    (pc = "t_done" /\ AcyclicMap(process_tree)) =>
        \A p \in Range(processes_in_order) :
            \A d \in Subtree(process_tree, p) \cap DOMAIN process_tree :
                /\ d \in Range(processes_in_order)
                /\ Pos(processes_in_order, d) < Pos(processes_in_order, p)

\* The order of an acyclic map in which a pid has a child and a grandchild.
C17_Witness ==
    /\ linked = "map"
    /\ pc = "t_done"
    /\ AcyclicMap(process_tree)
    /\ \E p, c, g \in Range(processes_in_order) :
          /\ c \in Range(process_tree[p].children)
          /\ g \in Range(process_tree[c].children)

\* No element of the sequence occurs in it twice.
NoRepeat(seq) == \A i, j \in DOMAIN seq : seq[i] = seq[j] => i = j

\* C18: in the tree build_process_tree returns no children list holds a pid
\* twice, whatever the snapshots listed.
C18_NoDuplicateChildren ==
    (linked = "tree" /\ pc = "t_tree") =>
        \A n \in DOMAIN process_tree : NoRepeat(process_tree[n].children)

\* The table lists every pid at most once.
UniquePids(t) == \A i, j \in DOMAIN t : t[i][1] = t[j][1] => i = j

\* The root has depth 0 and every child listed is one level below its node.
DepthsAgree(tree, root_pid) ==
    /\ tree[root_pid].depth = 0
    /\ \A n \in DOMAIN tree :
          \A c \in Range(tree[n].children) \cap DOMAIN tree :
              tree[c].depth = tree[n].depth + 1

\* C19: in the tree build_process_tree returns the root has depth 0 and
\* depth(c) = depth(n) + 1 for every child c listed by a node n, cyclic
\* tables included; here for a table that lists every pid once and does not
\* change during the build.
C19_ChildOneDeeper ==
    (linked = "tree" /\ pc = "t_tree" /\ envn = 0 /\ UniquePids(snapshot)) =>
        DepthsAgree(process_tree, cur)

\* C20: on every tree map, with children lists that form a cycle or repeat
\* a pid, the call of get_processes_in_dfs_order returns, and what it
\* returns holds nodes of the map only and none of them twice.
C20_OrderHasNoRepeat ==
    /\ pc = "t_tree" => ENABLED TreeOrder
    /\ pc = "t_done" =>
          /\ NoRepeat(processes_in_order)
          /\ Range(processes_in_order) \subseteq DOMAIN process_tree

\* The order of a caller's map in which two nodes list each other and one
\* of them lists a child twice.
C20_Witness ==
    /\ linked = "map"
    /\ pc = "t_done"
    /\ TwoCycle(process_tree)
    /\ \E n \in DOMAIN process_tree : ~NoRepeat(process_tree[n].children)
    /\ Len(processes_in_order) > 1

\* C21: whenever the root is a key of the map, some descendant listing the
\* root among its children included, the order is not empty and ends with
\* the root.
C21_RootLast ==
    (pc = "t_done" /\ cur \in DOMAIN process_tree) =>
        /\ processes_in_order # <<>>
        /\ processes_in_order[Len(processes_in_order)] = cur

\* The order of a map in which a grandchild of the root lists the root.
C21_Witness ==
    /\ linked = "map"
    /\ pc = "t_done"
    /\ cur \in DOMAIN process_tree
    /\ \E c \in Range(process_tree[cur].children) \ {cur} :
          /\ c \in DOMAIN process_tree
          /\ \E g \in Range(process_tree[c].children) \ {cur, c} :
                /\ g \in DOMAIN process_tree
                /\ cur \in Range(process_tree[g].children)
    /\ Len(processes_in_order) = 3

\* The keys of the map reached from r through children lists, r included.
Reachable(tree, r) == ({r} \cup Subtree(tree, r)) \cap DOMAIN tree

\* C22: the pids of the order are the keys of the map reached from the root
\* through children lists, neither more nor fewer, so none when the root is
\* no key.
C22_ExactlyReachable ==
    pc = "t_done" =>
        /\ Range(processes_in_order) = Reachable(process_tree, cur)
        /\ cur \notin DOMAIN process_tree => processes_in_order = <<>>

\* The order of a map with a node the root does not reach and with a child
\* listed that is no key.
C22_Witness ==
    /\ linked = "map"
    /\ pc = "t_done"
    /\ DOMAIN process_tree \ Range(processes_in_order) # {}
    /\ \E n \in Range(processes_in_order) :
          Range(process_tree[n].children) \ DOMAIN process_tree # {}

\* The pids from p down while each node lists exactly one child.
RECURSIVE ChainFrom(_, _, _)
ChainFrom(tree, p, n) ==
    IF n = 0 \/ p \notin DOMAIN tree \/ Len(tree[p].children) # 1 THEN <<p>>
    ELSE <<p>> \o ChainFrom(tree, tree[p].children[1], n - 1)

\* The map is one chain from r: every node is on it, acyclic, and every
\* node but the last lists exactly one child, the last none.
IsChain(tree, r) ==
    /\ r \in DOMAIN tree
    /\ AcyclicMap(tree)
    /\ Reachable(tree, r) = DOMAIN tree
    /\ \A p \in DOMAIN tree :
          /\ Len(tree[p].children) <= 1
          /\ Range(tree[p].children) \subseteq DOMAIN tree

Reverse(seq) == [i \in 1..Len(seq) |-> seq[Len(seq) + 1 - i]]

\* C23: for a map that is a linear chain from the root the order is the
\* chain reversed.
C23_ChainReversed ==
    (pc = "t_done" /\ IsChain(process_tree, cur)) =>
        processes_in_order =
            Reverse(ChainFrom(process_tree, cur, Cardinality(Universe)))

\* The order of a chain of three nodes.
C23_Witness ==
    /\ pc = "t_done"
    /\ IsChain(process_tree, cur)
    /\ Len(processes_in_order) = 3

\* ------------------------------------------- claims on the library's walk
\* The individual signals of the send_signal call in progress, as positions
\* of the log.
WalkLog == {i \in DOMAIN log : log[i].call = Len(calls) /\ log[i].raw > 0}

\* The pids below a in the tree: reached from a through children lists.
Below(tree, a) == Down(tree, {a}, MaxPid)

\* C24: in the tree walk of one send_signal call a pid below another in the
\* tree built for the call (and not also above it, as in a cycle) is
\* signalled before it, and nothing is signalled after the target root.
C24_DescendantsFirst ==
    pc \in {"walk", "walk_kill"} =>
        \A i, j \in WalkLog :
            /\ (/\ log[i].raw \in Below(process_tree, log[j].raw)
                /\ log[j].raw \notin Below(process_tree, log[i].raw)) => i < j
            /\ log[i].raw = cur => j <= i

\* A walk has ended that signalled the root, its child and its grandchild.
C24_Witness ==
    /\ pc = "walk"
    /\ idx > Len(processes_in_order)
    /\ \E i, j, k \in WalkLog :
          /\ log[k].raw = cur
          /\ log[j].raw \in Range(process_tree[cur].children)
          /\ log[i].raw \in Range(process_tree[log[j].raw].children)

\* The children the process table gives pid p at this moment.
ChildrenNow(p) == {c \in alive \ {p} : ppid[c] = p}

C25_Step ==
    /\ (pc = "build" /\ to_visit' # to_visit) =>
          /\ calls'[Len(calls)].snaps = calls[Len(calls)].snaps + 1
          /\ Range(process_tree'[Head(to_visit)].children)
                = ChildrenNow(Head(to_visit))
          /\ ChildrenNow(Head(to_visit)) \subseteq DOMAIN process_tree'
    /\ (pc = "build" /\ pc' \in {"build", "walk"}) =>
          DOMAIN process_tree \subseteq DOMAIN process_tree'

\* C25: every expansion of build_process_tree takes one snapshot and lists
\* as children of the expanded pid the processes that are its children in
\* the table at that moment, those forked since the build began included;
\* they are nodes of the tree from then on, and of the tree returned.
C25_FreshSnapshotPerPid == [][C25_Step]_vars

\* The tree returned holds a process forked after the build began: a member
\* of the target's group that the watchdog may signal, which the group
\* signal of the call, refused for the whole group, did not find there.
C25_Witness ==
    /\ pc = "walk"
    /\ calls[Len(calls)].grp = "EPERM"
    /\ \E c \in DOMAIN process_tree \ {cur} :
          c \in alive \ denied /\ pgid[c] = cur

\* --------------------------------------- more claims on the tree functions
\* The nodes of the tree that have been popped from the queue and expanded.
Expanded == DOMAIN process_tree \ Range(to_visit)

C26_State ==
    linked = "tree" =>
        /\ NoRepeat(to_visit)
        /\ Range(to_visit) \subseteq DOMAIN process_tree
        /\ pc \in {"t_tree", "t_done"} => Expanded = DOMAIN process_tree

C26_Step ==
    (pc = "t_build" /\ to_visit' # to_visit) =>
        /\ Expanded' = Expanded \cup {Head(to_visit)}
        /\ Range(to_visit') \ Range(to_visit)
              = DOMAIN process_tree' \ DOMAIN process_tree
        /\ Len(to_visit') = Len(to_visit) - 1
              + Cardinality(DOMAIN process_tree' \ DOMAIN process_tree)

\* C26: during one build a pid is queued when it enters the tree and at no
\* other time, so once; every iteration of the loop, which takes one
\* snapshot, expands one pid not expanded before; and when the build returns
\* every node has been expanded: as many snapshots as nodes.  This on every
\* table, with cycles, repeated records, and records that change.
C26_ExpandedOnce == [](C26_State) /\ [][C26_Step]_vars

\* A build has returned a tree in which two nodes list each other and one of
\* them lists a child twice.
C26_Witness ==
    /\ linked = "tree"
    /\ pc = "t_tree"
    /\ TwoCycle(process_tree)
    /\ \E n \in DOMAIN process_tree : ~NoRepeat(process_tree[n].children)

\* C27: in every tree of build_process_tree, while it is built and when it
\* is returned, no node lists its own pid among its children, and no node
\* but the root was created from a record whose pid is its parent_pid.
C27_NoSelfChild ==
    linked = "tree" =>
        \A n \in DOMAIN process_tree :
            /\ n \notin Range(process_tree[n].children)
            /\ n # cur => process_tree[n].parent_pid # n

\* A build has returned whose table lists the root and another node of the
\* tree each as its own parent.
C27_Witness ==
    /\ linked = "tree"
    /\ pc = "t_tree"
    /\ envn = 0
    /\ \E i, j \in DOMAIN snapshot :
          /\ snapshot[i] = <<cur, cur>>
          /\ snapshot[j][1] = snapshot[j][2]
          /\ snapshot[j][1] \in DOMAIN process_tree \ {cur}

\* Some record of table t names pid r as its parent.
NamesAsParent(t, r) == \E i \in DOMAIN t : t[i][2] = r

\* The tree of the root alone.
RootAlone == cur :> ProcessNode(cur, 0)

C28_State ==
    /\ (linked = "tree" /\ pc = "t_tree" /\ envn = 0
            /\ ~NamesAsParent(snapshot, cur)) => process_tree = RootAlone
    /\ (pc = "t_build" /\ to_visit = <<>>) => ENABLED TreeBuildDone

C28_Step ==
    (/\ pc = "t_build"
     /\ to_visit = <<cur>>
     /\ to_visit' # to_visit
     /\ ~NamesAsParent(snapshot, cur)) =>
        /\ process_tree = RootAlone
        /\ process_tree' = RootAlone
        /\ to_visit' = <<>>

\* C28: when the snapshot taken for the root has no record that names the
\* root as its parent, the root being absent from it or childless, the loop
\* ends after that one iteration and the tree returned is the root alone,
\* with parent_pid 0, depth 0 and no children; also when records have
\* vanished from the table since the build began.
C28_RootAlone == [](C28_State) /\ [][C28_Step]_vars

\* A build has returned the root alone from a table that is not empty, has
\* no record of the root, and lost or changed a record during the build.
C28_Witness ==
    /\ linked = "tree"
    /\ pc = "t_tree"
    /\ envn > 0
    /\ process_tree = RootAlone
    /\ snapshot # <<>>
    /\ \A i \in DOMAIN snapshot : snapshot[i][1] # cur

\* The watch task is in the tree walk of a send_signal call.
InWalk == pc \in {"walk", "walk_kill"}

C29_State ==
    InWalk =>
        /\ idx \in 1..(Len(processes_in_order) + 1)
        /\ pc = "walk_kill" => idx <= Len(processes_in_order)
        /\ ENABLED (WalkCheck \/ WalkKill \/ WalkDone)

C29_Step ==
    /\ (pc = "walk_kill" /\ pc' # pc) =>
          /\ pc' = "walk"
          /\ idx' = idx + 1
          /\ processes_in_order' = processes_in_order
    /\ (InWalk /\ ~InWalk') =>
          /\ pc = "walk"
          /\ idx > Len(processes_in_order)
          /\ pc' = ReturnPc

\* C29: whatever an individual signal of the tree walk returns, the walk
\* goes on to the next pid of the kill order, it can always take its next
\* step, and the call returns to the loop only from the end of the order.
C29_FailedSignalGoesOn == [](C29_State) /\ [][C29_Step]_vars

\* A call has returned in which an individual signal failed and a later one
\* was delivered.
C29_Witness ==
    \E i, j \in DOMAIN log :
        /\ i < j
        /\ log[i].call = log[j].call
        /\ Returned(log[i].call)
        /\ log[i].raw > 0 /\ log[i].res # "OK"
        /\ log[j].raw > 0 /\ log[j].res = "OK"

\* -------------------------------------------------- claims on the monitor
\* C30: the watch task starts with the poll-interval sleep and comes to a
\* liveness check of the guardian only by waking from that sleep: no check
\* and no escalation before the first sleep has elapsed.
C30_SleepBeforeEveryCheck ==
    /\ pc = "tick"
    /\ [][pc' = "check" => pc \in {"tick", "check"}]_vars

\* C31: the tree of build_process_tree, while it is built and when it is
\* returned, is closed (every pid of a children list is a key) and connected
\* (every key is reached from the root through children lists), so the
\* order holds every key and is as long as the tree is large; on every
\* table, cyclic or changing.
C31_ConnectedAndClosed ==
    linked = "tree" =>
        /\ \A n \in DOMAIN process_tree :
              Range(process_tree[n].children) \subseteq DOMAIN process_tree
        /\ Reachable(process_tree, cur) = DOMAIN process_tree
        /\ pc = "t_done" =>
              Len(processes_in_order) = Cardinality(DOMAIN process_tree)

\* The order of a tree of three nodes with a cycle through the root, built
\* from a table that changed during the build.
C31_Witness ==
    /\ linked = "tree"
    /\ pc = "t_done"
    /\ envn > 0
    /\ cur \in Subtree(process_tree, cur)
    /\ Len(processes_in_order) = 3

\* Sequence s is the beginning of sequence t.
IsPrefix(s, t) == Len(s) <= Len(t) /\ SubSeq(t, 1, Len(s)) = s

C32_State ==
    linked = "tree" =>
        /\ process_tree[cur].parent_pid = 0
        /\ process_tree[cur].depth = 0
        /\ \A n \in DOMAIN process_tree :
              /\ process_tree[n].pid = n
              /\ n # cur =>
                    /\ process_tree[n].parent_pid \in DOMAIN process_tree
                    /\ process_tree[n].depth =
                          process_tree[process_tree[n].parent_pid].depth + 1

C32_Step ==
    linked = "tree" =>
        /\ \A n \in DOMAIN process_tree :
              /\ n \in DOMAIN process_tree'
              /\ process_tree'[n].pid = process_tree[n].pid
              /\ process_tree'[n].parent_pid = process_tree[n].parent_pid
              /\ process_tree'[n].depth = process_tree[n].depth
              /\ IsPrefix(process_tree[n].children, process_tree'[n].children)
        /\ \A c \in DOMAIN process_tree' \ DOMAIN process_tree :
              /\ pc = "t_build" /\ to_visit # <<>>
              /\ <<c, Head(to_visit)>> \in Range(snapshot)
              /\ Head(to_visit) \in DOMAIN process_tree
              /\ process_tree'[c].parent_pid = Head(to_visit)
              /\ process_tree'[c].depth = process_tree[Head(to_visit)].depth + 1

\* C32: a node enters the tree only in the expansion of a pid of the tree
\* whose snapshot has a record of it with that pid as parent; it enters with
\* that parent_pid and the parent's depth plus 1; and from then on the node
\* stays, its pid, parent_pid and depth as they are, its children list only
\* growing at the end.
C32_NodesFromSnapshots == [](C32_State) /\ [][C32_Step]_vars

\* A build has returned a tree with a node two levels down and a node whose
\* record has since gone from the table.
C32_Witness ==
    /\ linked = "tree"
    /\ pc = "t_tree"
    /\ envn > 0
    /\ \E n \in DOMAIN process_tree : process_tree[n].depth = 2
    /\ \E n \in DOMAIN process_tree \ {cur} :
          <<n, process_tree[n].parent_pid>> \notin Range(snapshot)

\* The pids the records of table t give as children to the pids S, a pid
\* listed as its own parent left out.
KidsOf(t, S) ==
    {t[i][1] : i \in {j \in DOMAIN t : t[j][2] \in S /\ t[j][1] # t[j][2]}}

\* The pids reached from r by at most k parent links of table t.
RECURSIVE Within(_, _, _)
Within(t, r, k) ==
    IF k = 0 THEN {r}
    ELSE LET W == Within(t, r, k - 1) IN W \cup KidsOf(t, W)

\* The length of the shortest path of parent links from r to p.
Dist(t, r, p) ==
    CHOOSE k \in 0..MaxRec :
        /\ p \in Within(t, r, k)
        /\ \A j \in 0..(k - 1) : p \notin Within(t, r, j)

DepthOf(p) == process_tree[p].depth

C33_State ==
    linked = "tree" =>
        /\ \A i, j \in DOMAIN to_visit :
              i < j => DepthOf(to_visit[i]) <= DepthOf(to_visit[j])
        /\ \A n \in Expanded : \A q \in Range(to_visit) :
              DepthOf(n) <= DepthOf(q)
        /\ (pc = "t_tree" /\ envn = 0) =>
              \A n \in DOMAIN process_tree :
                  /\ n \in Within(snapshot, cur, MaxRec)
                  /\ DepthOf(n) = Dist(snapshot, cur, n)

C33_Step ==
    (pc = "t_build" /\ to_visit' # to_visit /\ to_visit' # <<>>) =>
        process_tree'[Head(to_visit')].depth >= DepthOf(Head(to_visit))

\* C33: the queue of build_process_tree is sorted by depth and no queued pid
\* is less deep than an expanded one, so the pids are expanded in
\* non-decreasing depth; and when the table did not change during the build
\* the depth of every node is the length of the shortest path of parent
\* links from the root to it.
C33_BreadthFirstDepths == [](C33_State) /\ [][C33_Step]_vars

\* A build is under way in which the root and one of its children have been
\* expanded and the queue holds pids of two depths.
C33_Witness ==
    /\ linked = "tree"
    /\ pc = "t_build"
    /\ Cardinality(Expanded) = 2
    /\ \E i, j \in DOMAIN to_visit :
          i < j /\ DepthOf(to_visit[i]) < DepthOf(to_visit[j])

\* ------------------------------------------------ claims on the pid values
\* The processes the kill(2) call of the last log entry addressed, read in
\* the state the call was made in.
C34_Step ==
    /\ Len(log') > Len(log) =>
          LET to == Addressed(log'[Len(log')].raw)
          IN  /\ pc \in {"grp", "lib_grp"} =>
                    to \subseteq {p \in alive : pgid[p] = cur}
              /\ pc = "ind" => to \subseteq {cur}
              /\ pc = "walk_kill" => to \subseteq {process_pid}
    /\ (pc = "walk" /\ pc' = "walk_kill") => process_pid \in alive

\* C34: whatever the target pid is, pid 1 included, the group signal of send_signal
\* addresses members of the process group with that id and no other process,
\* the individual signal addresses the process with that pid and no other,
\* and the probe answers true only if that process exists.
C34_AddressesTheTarget == [][C34_Step]_vars

====
